---------------------------- MODULE Spec2Model ----------------------------
(***************************************************************************)
(* Resume analyzer: four Streamlit page variants (main2, app2, app3,       *)
(* appfinal) that extract text from an uploaded resume, send it with a job *)
(* description and an instruction to a hosted model, and show the answer.  *)
(*                                                                         *)
(* A text (a Python str) is a sequence of one-character strings.  A fixed  *)
(* literal of the program ("Error: ", "No response generated.") is one     *)
(* token of such a sequence.  Python's None is the one-token sequence      *)
(* <<"<None>">>, which no text of the model holds.                         *)
(***************************************************************************)
EXTENDS Integers, Sequences, FiniteSets, TLC

(***************************************************************************)
(* Bounds of the model.                                                    *)
(***************************************************************************)
MaxLen == 4
MaxPages == 2
MaxScores == 2
MaxBytes == 3

(***************************************************************************)
(* Texts.                                                                  *)
(***************************************************************************)
Digits == {"1"}
Alphabet == Digits \cup {"%", "x"}
Texts == UNION {[1..n -> Alphabet] : n \in 0..MaxLen}
None == <<"<None>">>
NA == <<"N", "/", "A">>
TruthyNotNone(v) == v # None
Truthy(v) == v # None /\ v # <<>>
Or(v, d) == IF Truthy(v) THEN v ELSE d

DigitValue(c) == IF c = "1" THEN 1 ELSE 0
IsNumeral(s) == Len(s) > 0 /\ \A i \in 1..Len(s) : s[i] \in Digits
RECURSIVE ToInt(_)
ToInt(s) == IF s = <<>> THEN 0
            ELSE 10 * ToInt(SubSeq(s, 1, Len(s) - 1)) + DigitValue(s[Len(s)])

(***************************************************************************)
(* re.search(r"(\d+)%", text): the scan tries each start position from the *)
(* left; at a position \d+ takes the longest digit run and backtracks to   *)
(* shorter ones until the next character is '%'.                           *)
(***************************************************************************)
(* the length of the digit run that starts at position i *)
DigitRun(text, i) ==
    LET stops == {j \in i..(Len(text) + 1) : j = Len(text) + 1 \/ text[j] \notin Digits}
    IN  (CHOOSE j \in stops : \A k \in stops : j <= k) - i
MatchAt(text, i) ==
    LET k == DigitRun(text, i)
        ok == {n \in 1..k : i + n <= Len(text) /\ text[i + n] = "%"}
    IN  IF ok = {} THEN 0 ELSE CHOOSE n \in ok : \A m \in ok : m <= n
re_search(text) ==
    LET starts == {i \in 1..Len(text) : MatchAt(text, i) > 0}
    IN  IF starts = {} THEN [found |-> FALSE, group1 |-> <<>>]
        ELSE LET i == CHOOSE s \in starts : \A t \in starts : s <= t
             IN  [found |-> TRUE,
                  group1 |-> SubSeq(text, i, i + MatchAt(text, i) - 1)]

extract_percentage_zero(response_text) ==
    LET m == re_search(response_text)
    IN  IF m.found THEN m.group1 ELSE <<"0">>
extract_percentage(response_text) ==
    LET m == re_search(response_text)
    IN  IF m.found THEN m.group1 ELSE NA
extract_percentage_app3(text) ==
    IF re_search(text).found THEN re_search(text).group1 ELSE NA
extract_match_percentage(text) ==
    LET m == re_search(text)
    IN  IF m.found THEN m.group1 ELSE NA

(***************************************************************************)
(* Uploaded files.  A PDF is the sequence of what page.extract_text()      *)
(* gives for each page: a text, the empty text or None.                    *)
(***************************************************************************)
PageTexts == {None, <<>>, <<"a">>}
PageSeqs == UNION {[1..n -> PageTexts] : n \in 0..MaxPages}

RECURSIVE ConcatPages(_)
ConcatPages(pages) ==
    IF pages = <<>> THEN <<>>
    ELSE ConcatPages(SubSeq(pages, 1, Len(pages) - 1)) \o Or(pages[Len(pages)], <<>>)
RECURSIVE Join(_, _)
Join(sep, parts) ==
    IF parts = <<>> THEN <<>>
    ELSE IF Len(parts) = 1 THEN parts[1]
    ELSE Join(sep, SubSeq(parts, 1, Len(parts) - 1)) \o sep \o parts[Len(parts)]

input_pdf_text(pages) == ConcatPages(pages)
extract_text_from_pdf(pages) == ConcatPages(pages)
extract_text_from_pdf3(pages) == Join(<<>>, [i \in 1..Len(pages) |-> Or(pages[i], <<>>)])
extract_pdf_text(pages) == Join(<<" ">>, [i \in 1..Len(pages) |-> Or(pages[i], <<>>)])


(***************************************************************************)
(* docx: the paragraphs' texts joined by a newline.  txt: the bytes        *)
(* decoded as UTF-8; the model's bytes are 97 ('a') and the two bytes of   *)
(* 'e-acute' (195, 169), so a decode meets one- and two-byte sequences, a  *)
(* truncated sequence and a stray continuation byte.                       *)
(***************************************************************************)
ParaSeqs == UNION {[1..n -> {<<>>, <<"a">>}] : n \in 0..MaxPages}
Bytes == {97, 195, 169}
ByteSeqs == UNION {[1..n -> Bytes] : n \in 0..MaxBytes}

extract_text_from_docx(paras) == Join(<<"\n">>, paras)

RECURSIVE Utf8Valid(_)
Utf8Valid(bs) ==
    IF bs = <<>> THEN TRUE
    ELSE IF bs[1] < 128 THEN Utf8Valid(Tail(bs))
    ELSE IF bs[1] >= 194 /\ bs[1] <= 223
         THEN Len(bs) >= 2 /\ bs[2] >= 128 /\ bs[2] <= 191 /\ Utf8Valid(Tail(Tail(bs)))
    ELSE FALSE
RECURSIVE Utf8Chars(_)
Utf8Chars(bs) ==
    IF bs = <<>> THEN <<>>
    ELSE IF bs[1] = 97 THEN <<"a">> \o Utf8Chars(Tail(bs))
    ELSE <<"e">> \o Utf8Chars(Tail(Tail(bs)))
(* bytes.decode("utf-8"): the text, or UnicodeDecodeError *)
decode_utf8(bs) == IF Utf8Valid(bs) THEN [ok |-> TRUE, val |-> Utf8Chars(bs)]
                   ELSE [ok |-> FALSE, val |-> None]
(* bytes.decode("latin-1"): one character for every byte *)
extract_text_from_txt_latin1(bs) ==
    [ok |-> TRUE,
     val |-> [i \in 1..Len(bs) |-> IF bs[i] = 97 THEN "a" ELSE IF bs[i] = 195 THEN "A~" ELSE "(c)"]]
extract_text_from_txt(bs) == decode_utf8(bs)

(***************************************************************************)
(* An uploaded file: its extension, its content (pages, paragraphs or      *)
(* bytes) and whether the parsing library raises on it.                    *)
(***************************************************************************)
PdfFiles == {[ext |-> "pdf", body |-> p, corrupt |-> FALSE] : p \in PageSeqs}
              \cup {[ext |-> "pdf", body |-> <<>>, corrupt |-> TRUE]}
DocxFiles == {[ext |-> "docx", body |-> p, corrupt |-> FALSE] : p \in ParaSeqs}
              \cup {[ext |-> "docx", body |-> <<>>, corrupt |-> TRUE]}
TxtFiles == {[ext |-> "txt", body |-> b, corrupt |-> FALSE] : b \in ByteSeqs}
UploadTypes == {"pdf", "docx", "txt"}
SessionFiles == PdfFiles \cup DocxFiles \cup TxtFiles
NoFile == [ext |-> "", body |-> <<>>, corrupt |-> FALSE]

(* The extractor chosen by extension; ok = FALSE when it raised. *)
ExtractBy(pdf_text, file) ==
    IF file.corrupt THEN [ok |-> FALSE, val |-> None, err |-> "Exception"]
    ELSE IF file.ext = "pdf" THEN [ok |-> TRUE, val |-> pdf_text, err |-> ""]
    ELSE IF file.ext = "docx"
         THEN [ok |-> TRUE, val |-> extract_text_from_docx(file.body), err |-> ""]
    ELSE LET d == extract_text_from_txt(file.body)
         IN  [ok |-> d.ok, val |-> d.val,
              err |-> IF d.ok THEN "" ELSE "Exception"]

(* app2, app3: every failure is caught, reported with st.error, and None is returned *)
extract_text_from_file(file) ==
    IF file.ext \notin UploadTypes
    THEN [val |-> None, error |-> "Unsupported file type"]
    ELSE LET r == ExtractBy(extract_text_from_pdf(file.body), file)
         IN  IF r.ok THEN [val |-> r.val, error |-> ""]
             ELSE [val |-> None, error |-> "Error processing file"]
extract_text_from_file3(file) ==
    IF file.ext \notin UploadTypes
    THEN [val |-> None, error |-> "Unsupported file type"]
    ELSE LET r == ExtractBy(extract_text_from_pdf3(file.body), file)
         IN  IF r.ok THEN [val |-> r.val, error |-> ""]
             ELSE [val |-> None, error |-> "Error"]
(* appfinal: process_file raises; raised = TRUE is the exception leaving it *)
process_file(file) ==
    IF file.ext \notin UploadTypes
    THEN [raised |-> TRUE, val |-> None]
    ELSE LET r == ExtractBy(extract_pdf_text(file.body), file)
         IN  [raised |-> ~r.ok, val |-> r.val]

(* What the upload pages get for the files a user can upload (the uploader
   takes pdf, docx and txt); no file is the page shown with an empty uploader. *)
Uploads2 == {extract_text_from_file(f) : f \in SessionFiles}
Uploads3 == {extract_text_from_file3(f) : f \in SessionFiles}
UploadsF == {process_file(f) : f \in SessionFiles}

(***************************************************************************)
(* Backends.  A backend call either raises or answers with a text.  A      *)
(* prompt is the sequence of its segments: the literal labels of the       *)
(* f-string and the values interpolated, each with the argument it is.     *)
(***************************************************************************)
(* The pages read an answer through its being empty or not and through what
   the percentage extractors give on it.  The answers of the session are one
   text of Texts for every such reading; the extractors themselves are
   applied to every text of Texts under SpecPure. *)
Reading(t) == <<t = <<>>, extract_percentage(t), extract_percentage_app3(t),
                extract_match_percentage(t)>>
Readings == {Reading(t) : t \in Texts}
AnswerTexts == {CHOOSE t \in Texts : Reading(t) = r : r \in Readings}
Outcomes == {[raises |-> TRUE, text |-> <<>>]}
              \cup {[raises |-> FALSE, text |-> t] : t \in AnswerTexts}
ErrorMsg == <<"Error: ", "<exception>">>
NoResponse == <<"No response generated.">>
Invalid == <<"Invalid AI Selection">>
Seg(src, val) == [src |-> src, val |-> val]
Lit(s) == [src |-> "literal", val |-> <<s>>]
Call(to, prompt, o) == [to |-> to, prompt |-> prompt, raised |-> o.raises]
Returned(cs, v) == [calls |-> cs, raised |-> FALSE, exc |-> "", val |-> v]
Raised(cs, e) == [calls |-> cs, raised |-> TRUE, exc |-> e, val |-> None]

(* main2: the five per-provider functions *)
Plain3(input, pdf_content, prompt) ==
    <<Seg("job_desc", input), Lit("\n\n"), Seg("resume_text", pdf_content),
      Lit("\n\n"), Seg("prompt", prompt)>>
get_gemini_response_main2(input, pdf_content, prompt, o) ==
    LET c == Call("Gemini", <<Seg("job_desc", input), Seg("resume_text", pdf_content),
                              Seg("prompt", prompt)>>, o)
    IN  IF o.raises THEN Raised(<<c>>, "BackendError") ELSE Returned(<<c>>, o.text)
get_gpt_response(input, pdf_content, prompt, o) ==
    LET c == Call("OpenAI", Plain3(input, pdf_content, prompt), o)
    IN  IF o.raises THEN Returned(<<c>>, ErrorMsg) ELSE Returned(<<c>>, o.text)
get_claude_response(input, pdf_content, prompt, o) ==
    LET c == Call("Anthropic", Plain3(input, pdf_content, prompt), o)
    IN  IF o.raises THEN Raised(<<c>>, "BackendError") ELSE Returned(<<c>>, o.text)
get_cohere_response(input, pdf_content, prompt, o) ==
    LET c == Call("Cohere", Plain3(input, pdf_content, prompt), o)
    IN  IF o.raises THEN Raised(<<c>>, "BackendError") ELSE Returned(<<c>>, o.text)
(* hf_summarizer is never assigned (its line is commented out): NameError *)
get_hf_summary(pdf_content, o) == Raised(<<>>, "NameError")

AiChoices == {"Gemini", "ChatGPT", "Claude", "Cohere", "HuggingFace"}
BackendOf(choice) ==
    CASE choice = "Gemini" -> "Gemini"
      [] choice = "ChatGPT" -> "OpenAI"
      [] choice = "Claude" -> "Anthropic"
      [] choice = "Cohere" -> "Cohere"
      [] choice = "HuggingFace" -> "HuggingFace"
      [] OTHER -> "none"
(* the if/elif chain of generate_ai_response *)
DispatchDefault(choice, input, pdf_content, prompt, o) ==
    IF choice = "ChatGPT" THEN get_gpt_response(input, pdf_content, prompt, o)
    ELSE IF choice = "Claude" THEN get_claude_response(input, pdf_content, prompt, o)
    ELSE IF choice = "Cohere" THEN get_cohere_response(input, pdf_content, prompt, o)
    ELSE IF choice = "HuggingFace" THEN get_hf_summary(pdf_content, o)
    ELSE get_gemini_response_main2(input, pdf_content, prompt, o)
Dispatch(choice, input, pdf_content, prompt, o) ==
    IF choice = "Gemini" THEN get_gemini_response_main2(input, pdf_content, prompt, o)
    ELSE IF choice = "ChatGPT" THEN get_gpt_response(input, pdf_content, prompt, o)
    ELSE IF choice = "Claude" THEN get_claude_response(input, pdf_content, prompt, o)
    ELSE IF choice = "Cohere" THEN get_cohere_response(input, pdf_content, prompt, o)
    ELSE IF choice = "HuggingFace" THEN get_hf_summary(pdf_content, o)
    ELSE Returned(<<>>, Invalid)

(* The eight buttons: title, prompt key, and whether the lower-cased title
   holds "job description" (none does). *)
Buttons ==
    <<[title |-> "Summarize my Resume", key |-> "resume_summary", names_jd |-> FALSE],
      [title |-> "Percentage Match", key |-> "percentage_match", names_jd |-> FALSE],
      [title |-> "How can I improve my skills?", key |-> "skill_improvement", names_jd |-> FALSE],
      [title |-> "Find Missing Keywords", key |-> "missing_keywords", names_jd |-> FALSE],
      [title |-> "Interview Preparation", key |-> "interview_prep", names_jd |-> FALSE],
      [title |-> "Personalized Recommendations", key |-> "personalized_recommendations", names_jd |-> FALSE],
      [title |-> "Job Role Fitment Score", key |-> "role_fitment_score", names_jd |-> FALSE],
      [title |-> "Skill Proficiency Levels", key |-> "skill_proficiency", names_jd |-> FALSE]>>
prompts(key) == <<key>>

(* app2 *)
full_prompt(jd, resume, prompt) ==
    <<Lit("Job Description:"), Seg("job_desc", jd), Lit("Resume:"),
      Seg("resume_text", resume), Lit("Task:"), Seg("prompt", prompt)>>
get_gemini_response_app2(jd, resume, prompt, extract_percent, o) ==
    LET c == Call("Gemini", full_prompt(jd, resume, prompt), o)
    IN  IF o.raises THEN Returned(<<c>>, ErrorMsg)
        ELSE IF o.text = <<>> THEN Returned(<<c>>, NoResponse)
        ELSE IF extract_percent THEN Returned(<<c>>, extract_percentage(o.text))
        ELSE Returned(<<c>>, o.text)
Tabs2 == <<"resume_summary", "percentage_match", "missing_keywords", "skill_improvement",
           "interview_prep", "personalized_recommendations", "role_fitment_score",
           "skill_proficiency">>

(* app3 *)
SUPPORTED_LANGUAGES ==
    [l \in {"en", "hi", "ru", "es", "fr", "de"} |->
        CASE l = "en" -> "English" [] l = "hi" -> "Hindi" [] l = "ru" -> "Russian"
          [] l = "es" -> "Spanish" [] l = "fr" -> "French" [] l = "de" -> "German"]
get_prompt(key, lang) == IF lang \in {"hi", "ru"} THEN <<key, lang>> ELSE <<key, "en">>
Prompt3Always(jd, resume, prompt, lang) ==
    <<Lit("Job Description:"), Seg("job_desc", jd), Lit("Resume:"),
      Seg("resume_text", resume), Lit("Task:"), Seg("prompt", prompt),
      Seg("language", <<"Respond in ", SUPPORTED_LANGUAGES[lang]>>)>>
Prompt3(jd, resume, prompt, lang) ==
    <<Lit("Job Description:"), Seg("job_desc", jd), Lit("Resume:"),
      Seg("resume_text", resume), Lit("Task:"), Seg("prompt", prompt)>>
    \o (IF lang # "en" THEN <<Seg("language", <<"Respond in ", SUPPORTED_LANGUAGES[lang]>>)>>
        ELSE <<>>)
get_gemini_response_app3(jd, resume, prompt, extract_percent, lang, o) ==
    LET c == Call("Gemini", Prompt3(jd, resume, prompt, lang), o)
    IN  IF o.raises THEN Raised(<<c>>, "BackendError")
        ELSE IF extract_percent THEN Returned(<<c>>, extract_percentage_app3(o.text))
        ELSE Returned(<<c>>, o.text)

(* appfinal *)
LANGUAGES ==
    [l \in {"en", "hi", "ru", "es", "fr"} |->
        CASE l = "en" -> "English" [] l = "hi" -> "Hindi" [] l = "ru" -> "Russian"
          [] l = "es" -> "Spanish" [] l = "fr" -> "French"]
PromptF(jd, resume, prompt, lang) ==
    <<Lit("Job Description:"), Seg("job_desc", jd), Lit("Resume:"),
      Seg("resume_text", resume), Lit("Task:"), Seg("prompt", prompt)>>
    \o (IF lang # "en" THEN <<Seg("language", <<"Respond in ", LANGUAGES[lang], ".">>)>>
        ELSE <<>>)
analyze_with_gemini(jd, resume, prompt, lang, o) ==
    LET c == Call("Gemini", PromptF(jd, resume, prompt, lang), o)
    IN  IF o.raises THEN Raised(<<c>>, "BackendError") ELSE Returned(<<c>>, o.text)
TabsF == <<"summary", "match_percentage", "improvements", "keywords", "questions",
           "suggestions", "fit_score", "skills">>

(***************************************************************************)
(* State.                                                                  *)
(***************************************************************************)
VARIABLES
    app,            \* the page variant this session runs
    resume_text,    \* st.session_state.resume_text (appfinal: .resume)
    job_desc,       \* st.session_state.job_desc
    language,       \* st.session_state.language
    scores,         \* st.session_state.historical_scores (appfinal: .scores)
    uploaded_file,  \* main2: the file uploader's value
    input_text,     \* main2: the job description text area's value
    ai_choice,      \* main2: the selectbox's value
    selected,       \* the page of the current (or last) script run
    pc,             \* 0 between runs; else the next tab of the Analyze page
    req,            \* the last analysis request of the current run
    calls,          \* the outbound backend calls that request made
    ret,            \* how the request's dispatch function ended
    match,          \* the value in the percentage position of this run
    uncaught,       \* the exception that aborted this run, or "none"
    stats_len,      \* the length of the history the statistics got, or -1
    upload,         \* this run's extraction of an uploaded file: "none", "ok", "failed"
    shown,          \* the kinds of status message this run displayed
    fn,             \* function contracts: the function applied, or "none"
    arg,            \* its argument
    res             \* its result

sess == <<resume_text, job_desc, language, scores>>
widgets == <<uploaded_file, input_text, ai_choice>>
pure == <<fn, arg, res>>
status == <<upload, shown>>
vars == <<app, resume_text, job_desc, language, scores, uploaded_file, input_text,
          ai_choice, selected, pc, req, calls, ret, match, uncaught, stats_len,
          upload, shown, fn, arg, res>>

Apps == {"main2", "app2", "app3", "appfinal"}
JDTexts == {<<>>, <<"j">>}
NoReq == [provider |-> "none", jd |-> None, resume |-> None, prompt |-> None,
          lang |-> "", extract |-> FALSE]
Req(p, jd, resume, prompt, lang, ex) ==
    [provider |-> p, jd |-> jd, resume |-> resume, prompt |-> prompt,
     lang |-> lang, extract |-> ex]
NoRet == [kind |-> "none", shape |-> "none"]
Shape(val) == IF val = ErrorMsg THEN "error_message"
              ELSE IF val = NoResponse THEN "no_response"
              ELSE IF val = Invalid THEN "invalid_selection"
              ELSE "text"

(* app3 seeds the history with ten random integers of 50..94 *)
SeedLen == 10
Seeds == {[i \in 1..SeedLen |-> IF i % 2 = 1 THEN 50 ELSE 94]}
InitialScoresEmpty(a) == {<<>>}
InitialScores(a) == IF a = "app3" THEN Seeds ELSE {<<>>}
ScoreCap == IF app = "app3" THEN SeedLen + MaxScores ELSE MaxScores

(* The state after the first script run: the default page with nothing stored. *)
Init ==
    /\ app \in Apps
    /\ resume_text = <<>>
    /\ job_desc = <<>>
    /\ language = "en"
    /\ scores \in InitialScores(app)
    /\ uploaded_file = NoFile
    /\ input_text = <<>>
    /\ ai_choice = "Gemini"
    /\ selected = IF app = "main2" THEN "main" ELSE "Home"
    /\ pc = 0
    /\ req = NoReq
    /\ calls = <<>>
    /\ ret = NoRet
    /\ match = None
    /\ uncaught = "none"
    /\ stats_len = -1
    /\ upload = "none"
    /\ shown = {}
    /\ fn = "none"
    /\ arg = <<>>
    /\ res = <<>>

(* A request went through a dispatch function with result d. *)
Dispatched(r, d) ==
    /\ req' = r
    /\ calls' = d.calls
    /\ ret' = IF d.raised THEN [kind |-> "raise", shape |-> d.exc]
              ELSE [kind |-> "return", shape |-> Shape(d.val)]
(* The run issued no request. *)
NoDispatch ==
    /\ req' = NoReq
    /\ calls' = <<>>
    /\ ret' = NoRet

(* The run extracted no uploaded file and displayed the messages msgs. *)
Shown(msgs) ==
    /\ upload' = "none"
    /\ shown' = msgs
(* The run extracted an uploaded file (failed: the extraction did not give
   its text) and displayed the messages msgs. *)
Uploaded(failed, msgs) ==
    /\ upload' = IF failed THEN "failed" ELSE "ok"
    /\ shown' = msgs
Msg(cond, kind) == IF cond THEN {kind} ELSE {}
(* the guard of the Home and Analyze pages *)
Ready == Truthy(resume_text) /\ Truthy(job_desc)

(***************************************************************************)
(* main2: one page; every widget change or button press reruns the script. *)
(* st.success is displayed at every run that has a file in the uploader.   *)
(***************************************************************************)
M2_Upload ==
    /\ app = "main2"
    /\ \E f \in PdfFiles \cup {NoFile} :
         /\ uploaded_file' = f
         /\ Shown(Msg(f # NoFile, "success"))
    /\ NoDispatch
    /\ match' = None /\ uncaught' = "none" /\ stats_len' = -1
    /\ UNCHANGED <<app, sess, input_text, ai_choice, selected, pc, pure>>

M2_Edit ==
    /\ app = "main2"
    /\ \E t \in JDTexts : input_text' = t
    /\ Shown(Msg(uploaded_file # NoFile, "success"))
    /\ NoDispatch
    /\ match' = None /\ uncaught' = "none" /\ stats_len' = -1
    /\ UNCHANGED <<app, sess, uploaded_file, ai_choice, selected, pc, pure>>

M2_Choose ==
    /\ app = "main2"
    /\ \E c \in AiChoices : ai_choice' = c
    /\ Shown(Msg(uploaded_file # NoFile, "success"))
    /\ NoDispatch
    /\ match' = None /\ uncaught' = "none" /\ stats_len' = -1
    /\ UNCHANGED <<app, sess, uploaded_file, input_text, selected, pc, pure>>

(* generate_ai_response(title, prompt_key) with its button pressed *)
generate_ai_response(b, o) ==
    IF uploaded_file # NoFile /\ (~Buttons[b].names_jd \/ Truthy(input_text))
    THEN IF uploaded_file.corrupt
         THEN /\ NoDispatch
              /\ uncaught' = "Exception"
              /\ Uploaded(TRUE, {"success"})
         ELSE LET pdf_content == input_pdf_text(uploaded_file.body)
                  prompt == prompts(Buttons[b].key)
                  d == Dispatch(ai_choice, input_text, pdf_content, prompt, o)
              IN  /\ Dispatched(Req(ai_choice, input_text, pdf_content, prompt, "en", FALSE), d)
                  /\ uncaught' = IF d.raised THEN d.exc ELSE "none"
                  /\ Uploaded(FALSE, {"success"})
    ELSE /\ NoDispatch
         /\ uncaught' = "none"
         /\ Shown(Msg(uploaded_file # NoFile, "success") \cup {"warning"})

M2_Press ==
    /\ app = "main2"
    /\ \E b \in 1..Len(Buttons) : \E o \in Outcomes : generate_ai_response(b, o)
    /\ match' = None /\ stats_len' = -1
    /\ UNCHANGED <<app, sess, widgets, selected, pc, pure>>

(***************************************************************************)
(* app2.                                                                   *)
(***************************************************************************)
A2_Home ==
    /\ app = "app2" /\ pc = 0
    /\ selected' = "Home"
    /\ IF Truthy(resume_text) /\ Truthy(job_desc)
       THEN \E o \in Outcomes :
              LET prompt == prompts("percentage_match")
                  d == get_gemini_response_app2(job_desc, resume_text, prompt, TRUE, o)
              IN  /\ Dispatched(Req("Gemini", job_desc, resume_text, prompt, "en", TRUE), d)
                  /\ match' = d.val
       ELSE /\ NoDispatch
            /\ match' = None
    /\ Shown(Msg(~Ready, "info"))
    /\ uncaught' = "none" /\ stats_len' = -1
    /\ UNCHANGED <<app, sess, widgets, pc, pure>>

A2_Upload ==
    /\ app = "app2" /\ pc = 0
    /\ selected' = "Upload Resume"
    /\ \/ UNCHANGED resume_text /\ Shown({})
       \/ \E r \in Uploads2 :
            /\ resume_text' = r.val
            /\ Uploaded(r.error # "", Msg(r.error # "", "error") \cup Msg(Truthy(r.val), "success"))
    /\ NoDispatch
    /\ match' = None /\ uncaught' = "none" /\ stats_len' = -1
    /\ UNCHANGED <<app, job_desc, language, scores, widgets, pc, pure>>

A2_JD ==
    /\ app = "app2" /\ pc = 0
    /\ selected' = "Job Description"
    /\ \E t \in JDTexts :
         /\ job_desc' = IF Truthy(t) THEN t ELSE job_desc
         /\ Shown(Msg(Truthy(t), "success"))
    /\ NoDispatch
    /\ match' = None /\ uncaught' = "none" /\ stats_len' = -1
    /\ UNCHANGED <<app, resume_text, language, scores, widgets, pc, pure>>

A2_Analyze ==
    /\ app = "app2" /\ pc = 0
    /\ selected' = "Analyze"
    /\ pc' = IF ~Truthy(resume_text) \/ ~Truthy(job_desc) THEN 0 ELSE 1
    /\ Shown(Msg(~Ready, "warning"))
    /\ NoDispatch
    /\ match' = None /\ uncaught' = "none" /\ stats_len' = -1
    /\ UNCHANGED <<app, sess, widgets, pure>>

A2_Tab ==
    /\ app = "app2" /\ pc \in 1..Len(Tabs2)
    /\ \E o \in Outcomes :
         LET prompt == prompts(Tabs2[pc])
             d == get_gemini_response_app2(job_desc, resume_text, prompt, pc = 2, o)
         IN  /\ Dispatched(Req("Gemini", job_desc, resume_text, prompt, "en", pc = 2), d)
             /\ match' = IF pc = 2 THEN d.val ELSE match
    /\ pc' = IF pc = Len(Tabs2) THEN 0 ELSE pc + 1
    /\ UNCHANGED <<app, sess, widgets, selected, uncaught, stats_len, status, pure>>

(***************************************************************************)
(* app3.  The sidebar's language selectbox is stored at every run.  px     *)
(* (plotly.express) is never imported, so the first chart of a page raises *)
(* NameError.                                                              *)
(***************************************************************************)
Languages3 == DOMAIN SUPPORTED_LANGUAGES
(* One widget changes per rerun: the menu (the language stays) or, on the
   page already shown, the language selectbox. *)
LangChoice(page, langs) == IF selected = page THEN langs ELSE {language}

(* st.session_state.historical_scores.append(int(match)) *)
AppendScoreReset(history, v) == <<v>>
AppendScore(history, v) == Append(history, v)
(* Of the statistics the model keeps the size of the list they are computed on. *)
calculate_match_stats(history) == Len(history)

A3_Home ==
    /\ app = "app3" /\ pc = 0
    /\ Len(scores) < ScoreCap
    /\ selected' = "Home"
    /\ \E lang \in LangChoice("Home", Languages3) :
         /\ language' = lang
         /\ IF Truthy(resume_text) /\ Truthy(job_desc)
            THEN \E o \in Outcomes :
                   LET prompt == get_prompt("percentage_match", lang)
                       d == get_gemini_response_app3(job_desc, resume_text, prompt,
                                                     TRUE, lang, o)
                   IN  /\ Dispatched(Req("Gemini", job_desc, resume_text, prompt, lang, TRUE), d)
                       /\ IF d.raised
                          THEN /\ match' = None
                               /\ uncaught' = d.exc
                               /\ UNCHANGED scores
                          ELSE /\ match' = d.val
                               /\ IF IsNumeral(d.val)
                                  THEN /\ scores' = AppendScore(scores, ToInt(d.val))
                                       /\ uncaught' = "NameError"
                                  ELSE /\ uncaught' = "ValueError"
                                       /\ UNCHANGED scores
            ELSE /\ NoDispatch
                 /\ match' = None /\ uncaught' = "none"
                 /\ UNCHANGED scores
    /\ Shown(Msg(~Ready, "info"))
    /\ stats_len' = -1
    /\ UNCHANGED <<app, resume_text, job_desc, widgets, pc, pure>>

A3_Upload ==
    /\ app = "app3" /\ pc = 0
    /\ selected' = "Upload Resume"
    /\ \E lang \in LangChoice("Upload Resume", Languages3) : language' = lang
    /\ \/ UNCHANGED resume_text /\ Shown({})
       \/ \E r \in Uploads3 :
            /\ resume_text' = r.val
            /\ Uploaded(r.error # "", Msg(r.error # "", "error") \cup {"success"})
    /\ NoDispatch
    /\ match' = None /\ uncaught' = "none" /\ stats_len' = -1
    /\ UNCHANGED <<app, job_desc, scores, widgets, pc, pure>>

A3_JD ==
    /\ app = "app3" /\ pc = 0
    /\ selected' = "Job Description"
    /\ \E lang \in LangChoice("Job Description", Languages3) : language' = lang
    /\ \E t \in JDTexts :
         /\ job_desc' = IF Truthy(t) THEN t ELSE job_desc
         /\ Shown(Msg(Truthy(t), "success"))
    /\ NoDispatch
    /\ match' = None /\ uncaught' = "none" /\ stats_len' = -1
    /\ UNCHANGED <<app, resume_text, scores, widgets, pc, pure>>

A3_Analyze ==
    /\ app = "app3" /\ pc = 0
    /\ selected' = "Analyze"
    /\ \E lang \in LangChoice("Analyze", Languages3) :
         /\ language' = lang
         /\ IF ~Truthy(resume_text) \/ ~Truthy(job_desc)
            THEN /\ NoDispatch
                 /\ uncaught' = "none" /\ stats_len' = -1
            ELSE \E o \in Outcomes :
                   LET prompt == get_prompt("resume_summary", lang)
                       d == get_gemini_response_app3(job_desc, resume_text, prompt,
                                                     FALSE, lang, o)
                   IN  /\ Dispatched(Req("Gemini", job_desc, resume_text, prompt, lang, FALSE), d)
                       /\ IF d.raised
                          THEN uncaught' = d.exc /\ stats_len' = -1
                          ELSE /\ stats_len' = calculate_match_stats(scores)
                               /\ uncaught' = "NameError"
    /\ Shown(Msg(~Ready, "warning"))
    /\ match' = None
    /\ UNCHANGED <<app, resume_text, job_desc, scores, widgets, pc, pure>>

(***************************************************************************)
(* appfinal.                                                               *)
(***************************************************************************)
LanguagesF == DOMAIN LANGUAGES
score_stats(history) == Len(history)
(* the expander's guard: if st.session_state.scores *)
ExpanderStats(history) == IF history # <<>> THEN score_stats(history) ELSE -1

AF_Home ==
    /\ app = "appfinal" /\ pc = 0
    /\ selected' = "Home"
    /\ \E lang \in LangChoice("Home", LanguagesF) : language' = lang
    /\ Shown({})
    /\ NoDispatch
    /\ match' = None /\ uncaught' = "none" /\ stats_len' = -1
    /\ UNCHANGED <<app, resume_text, job_desc, scores, widgets, pc, pure>>

AF_Upload ==
    /\ app = "appfinal" /\ pc = 0
    /\ selected' = "Upload"
    /\ \E lang \in LangChoice("Upload", LanguagesF) : language' = lang
    /\ \/ UNCHANGED resume_text /\ Shown({})
       \/ \E r \in UploadsF :
            /\ resume_text' = IF r.raised THEN resume_text ELSE r.val
            /\ Uploaded(r.raised, IF r.raised THEN {"error"} ELSE {"success"})
    /\ NoDispatch
    /\ match' = None /\ uncaught' = "none" /\ stats_len' = -1
    /\ UNCHANGED <<app, job_desc, scores, widgets, pc, pure>>

AF_JD ==
    /\ app = "appfinal" /\ pc = 0
    /\ selected' = "JD"
    /\ \E lang \in LangChoice("JD", LanguagesF) : language' = lang
    /\ \E t \in JDTexts :
         /\ job_desc' = t
         /\ Shown(Msg(Truthy(t), "success"))
    /\ NoDispatch
    /\ match' = None /\ uncaught' = "none" /\ stats_len' = -1
    /\ UNCHANGED <<app, resume_text, scores, widgets, pc, pure>>

AF_Analyze ==
    /\ app = "appfinal" /\ pc = 0
    /\ Len(scores) < ScoreCap
    /\ selected' = "Analyze"
    /\ \E lang \in LangChoice("Analyze", LanguagesF) : language' = lang
    /\ pc' = IF ~Truthy(resume_text) \/ ~Truthy(job_desc) THEN 0 ELSE 1
    /\ Shown(Msg(~Ready, "warning"))
    /\ NoDispatch
    /\ match' = None /\ uncaught' = "none" /\ stats_len' = -1
    /\ UNCHANGED <<app, resume_text, job_desc, scores, widgets, pure>>

AF_Tab ==
    /\ app = "appfinal" /\ pc \in 1..Len(TabsF)
    /\ \E o \in Outcomes :
         LET prompt == <<TabsF[pc]>>
             d == analyze_with_gemini(job_desc, resume_text, prompt, language, o)
             match_percent == extract_match_percentage(d.val)
         IN  /\ Dispatched(Req("Gemini", job_desc, resume_text, prompt, language, FALSE), d)
             /\ IF d.raised
                THEN /\ uncaught' = d.exc /\ pc' = 0
                     /\ UNCHANGED <<scores, match>>
                ELSE IF pc # 2
                THEN /\ pc' = pc + 1
                     /\ UNCHANGED <<scores, match, uncaught>>
                ELSE IF IsNumeral(match_percent)
                THEN /\ scores' = AppendScore(scores, ToInt(match_percent))
                     /\ match' = match_percent
                     /\ pc' = pc + 1
                     /\ UNCHANGED uncaught
                ELSE /\ uncaught' = "ValueError" /\ pc' = 0
                     /\ match' = match_percent
                     /\ UNCHANGED scores
    /\ UNCHANGED <<app, resume_text, job_desc, language, widgets, selected, stats_len,
                   status, pure>>

AF_Expander ==
    /\ app = "appfinal" /\ pc = Len(TabsF) + 1
    /\ stats_len' = ExpanderStats(scores)
    /\ pc' = 0
    /\ UNCHANGED <<app, sess, widgets, selected, req, calls, ret, match, uncaught,
                   status, pure>>

Next ==
    \/ M2_Upload \/ M2_Edit \/ M2_Choose \/ M2_Press
    \/ A2_Home \/ A2_Upload \/ A2_JD \/ A2_Analyze \/ A2_Tab
    \/ A3_Home \/ A3_Upload \/ A3_JD \/ A3_Analyze
    \/ AF_Home \/ AF_Upload \/ AF_JD \/ AF_Analyze \/ AF_Tab \/ AF_Expander

Spec == Init /\ [][Next]_vars

(***************************************************************************)
(* The dispatch chain of generate_ai_response as a function of ai_choice:  *)
(* the selection is any value, among them one the selectbox does not       *)
(* offer.                                                                  *)
(***************************************************************************)
AnyChoice == AiChoices \cup {"unknown"}
InitDispatch ==
    /\ app = "main2"
    /\ resume_text = <<>> /\ job_desc = <<>> /\ language = "en" /\ scores = <<>>
    /\ uploaded_file = NoFile /\ input_text = <<>>
    /\ ai_choice \in AnyChoice
    /\ selected = "main" /\ pc = 0
    /\ req = NoReq /\ calls = <<>> /\ ret = NoRet /\ match = None
    /\ uncaught = "none" /\ stats_len = -1
    /\ upload = "none" /\ shown = {}
    /\ fn = "none" /\ arg = <<>> /\ res = <<>>
NextDispatch == M2_Upload \/ M2_Edit \/ M2_Press
SpecDispatch == InitDispatch /\ [][NextDispatch]_vars

(***************************************************************************)
(* The extractors as functions: an argument is drawn, one function is      *)
(* applied to it.                                                          *)
(***************************************************************************)
PercentFns == {"extract_percentage", "extract_percentage_app3", "extract_match_percentage"}
PdfFns == {"input_pdf_text", "extract_text_from_pdf", "extract_text_from_pdf3",
           "extract_pdf_text"}
FileFns == {"extract_text_from_file", "extract_text_from_file3", "process_file"}
InitPure ==
    /\ app = "none"
    /\ resume_text = <<>> /\ job_desc = <<>> /\ language = "en" /\ scores = <<>>
    /\ uploaded_file = NoFile /\ input_text = <<>> /\ ai_choice = "Gemini"
    /\ selected = "none" /\ pc = 0
    /\ req = NoReq /\ calls = <<>> /\ ret = NoRet /\ match = None
    /\ uncaught = "none" /\ stats_len = -1
    /\ upload = "none" /\ shown = {}
    /\ fn = "none"
    /\ \/ \E t \in Texts : arg = [of |-> "text", v |-> t]
       \/ \E p \in PageSeqs : arg = [of |-> "pdf", v |-> p]
       \/ \E f \in SessionFiles : arg = [of |-> "file", v |-> f]
    /\ res = <<>>
Applied(f, r) ==
    /\ fn = "none"
    /\ fn' = f /\ res' = r
    /\ UNCHANGED <<app, sess, widgets, selected, pc, req, calls, ret, match, uncaught,
                   stats_len, status, arg>>
P_extract_percentage ==
    arg.of = "text" /\ Applied("extract_percentage", extract_percentage(arg.v))
P_extract_percentage_app3 ==
    arg.of = "text" /\ Applied("extract_percentage_app3", extract_percentage_app3(arg.v))
P_extract_match_percentage ==
    arg.of = "text" /\ Applied("extract_match_percentage", extract_match_percentage(arg.v))
P_input_pdf_text ==
    arg.of = "pdf" /\ Applied("input_pdf_text", input_pdf_text(arg.v))
P_extract_text_from_pdf ==
    arg.of = "pdf" /\ Applied("extract_text_from_pdf", extract_text_from_pdf(arg.v))
P_extract_text_from_pdf3 ==
    arg.of = "pdf" /\ Applied("extract_text_from_pdf3", extract_text_from_pdf3(arg.v))
P_extract_pdf_text ==
    arg.of = "pdf" /\ Applied("extract_pdf_text", extract_pdf_text(arg.v))
P_extract_text_from_txt ==
    /\ arg.of = "file" /\ arg.v.ext = "txt"
    /\ Applied("extract_text_from_txt", extract_text_from_txt(arg.v.body))
P_extract_text_from_file ==
    arg.of = "file" /\ Applied("extract_text_from_file", extract_text_from_file(arg.v))
P_extract_text_from_file3 ==
    arg.of = "file" /\ Applied("extract_text_from_file3", extract_text_from_file3(arg.v))
P_process_file ==
    arg.of = "file" /\ Applied("process_file", process_file(arg.v))
NextPure ==
    \/ P_extract_percentage \/ P_extract_percentage_app3 \/ P_extract_match_percentage
    \/ P_input_pdf_text \/ P_extract_text_from_pdf \/ P_extract_text_from_pdf3
    \/ P_extract_pdf_text
    \/ P_extract_text_from_txt \/ P_extract_text_from_file \/ P_extract_text_from_file3
    \/ P_process_file
SpecPure == InitPure /\ [][NextPure]_vars

(***************************************************************************)
(* Properties.                                                             *)
(***************************************************************************)

(* The substrings of t that are one or more digits followed by '%', each as
   the positions <<first digit, last digit>>. *)
PercentRuns(t) ==
    {p \in (1..Len(t)) \X (1..Len(t)) :
        /\ p[1] <= p[2] /\ p[2] < Len(t)
        /\ \A i \in p[1]..p[2] : t[i] \in Digits
        /\ t[p[2] + 1] = "%"}

(* C1: for every response text the percentage extractor returns the digit
   run of the first "<digits>%" substring when there is one, and the absent
   marker "N/A" (not zero, no other value) when there is none. *)
C1_ExtractFirstPercentage ==
    fn \in PercentFns =>
        IF PercentRuns(arg.v) = {} THEN res = NA
        ELSE \E p \in PercentRuns(arg.v) :
                /\ \A q \in PercentRuns(arg.v) : p[1] <= q[1]
                /\ res = SubSeq(arg.v, p[1], p[2])
C1_Witness ==
    /\ fn = "extract_percentage"
    /\ arg.v = <<"x", "1", "1", "%">>
    /\ res = <<"1", "1">>

(* C2: when percentage extraction is requested, the value handed back in
   the percentage position is a percentage (the raw text held "<digits>%")
   or the absent marker "N/A", whatever the outcome of the backend call:
   an answer without a percentage, an empty answer, an exception. *)
C2_PercentOrAbsent ==
    req.extract => (IsNumeral(match) \/ match = NA)

(* C3: every extracted percentage and every entry of the score history is
   an integer in 0..100. *)
C3_ScoresInRange ==
    /\ \A i \in 1..Len(scores) : scores[i] \in 0..100
    /\ IsNumeral(match) => ToInt(match) \in 0..100

(* C4: the summary statistics over the score history are never computed on
   an empty history. *)
C4_StatsOnNonEmpty == stats_len # 0
C4_Witness == app = "appfinal" /\ stats_len = 2

(* The pages' texts one after the other, first page first, a page without
   text counting as the empty text. *)
RECURSIVE PagesInOrder(_)
PagesInOrder(pages) ==
    IF pages = <<>> THEN <<>>
    ELSE (IF Head(pages) = None THEN <<>> ELSE Head(pages)) \o PagesInOrder(Tail(pages))

(* C5: the PDF extractor returns the concatenation, in page order, of each
   page's text, a page without extractable text giving the empty string; so
   a document whose pages all give no text yields the empty string, and no
   error. *)
C5_PdfConcatenation ==
    fn \in PdfFns =>
        /\ res = PagesInOrder(arg.v)
        /\ (\A i \in 1..Len(arg.v) : arg.v[i] \in {None, <<>>}) => res = <<>>

(* C6: for a provider id that is none of the supported ones the dispatch
   gives the unsupported-provider outcome at once and makes no outbound
   backend call. *)
C6_UnknownProviderNoCall ==
    (req # NoReq /\ req.provider \notin AiChoices) =>
        /\ calls = <<>>
        /\ ret = [kind |-> "return", shape |-> "invalid_selection"]
        /\ uncaught = "none"
C6_Witness ==
    /\ req.provider = "unknown"
    /\ ret.shape = "invalid_selection"
    /\ uploaded_file.body # <<>>

(* C7: a backend call that raises is caught in the dispatch function and
   turned into an error message returned to the caller; no backend failure
   leaves the dispatch function as an exception that aborts the page run. *)
C7_BackendFailureCaught ==
    (calls # <<>> /\ calls[Len(calls)].raised) =>
        /\ ret = [kind |-> "return", shape |-> "error_message"]
        /\ uncaught = "none"

(* C8: every analysis request for a supported provider makes exactly one
   outbound backend call, to the backend of the selected provider: no retry
   after a failure, no other provider, and no answer served from an earlier
   identical request. *)
C8_OneCallPerRequest ==
    (req # NoReq /\ req.provider \in AiChoices) =>
        /\ Len(calls) = 1
        /\ calls[1].to = BackendOf(req.provider)

(* The values a prompt interpolates, in the order they stand in it. *)
Interpolated(prompt) == SelectSeq(prompt, LAMBDA g : g.src # "literal")

(* C9: the prompt of every backend call holds the job description, then the
   resume text, then the instruction, in that order, followed by a
   "Respond in <language>" suffix exactly when the language is not "en". *)
C9_PromptOrder ==
    \A i \in 1..Len(calls) :
        LET vals == Interpolated(calls[i].prompt)
        IN  /\ Len(vals) = IF req.lang # "en" THEN 4 ELSE 3
            /\ vals[1] = [src |-> "job_desc", val |-> req.jd]
            /\ vals[2] = [src |-> "resume_text", val |-> req.resume]
            /\ vals[3] = [src |-> "prompt", val |-> req.prompt]
            /\ req.lang # "en" =>
                 /\ vals[4].src = "language"
                 /\ SubSeq(vals[4].val, 1, 2) = <<"Respond in ", SUPPORTED_LANGUAGES[req.lang]>>
            /\ req.lang = language
            /\ req.jd = IF app = "main2" THEN input_text ELSE job_desc
C9_Witness ==
    /\ app = "app3" /\ calls # <<>>
    /\ req.lang = "hi" /\ req.prompt = <<"percentage_match", "hi">>

(* C10: the score history is append-only: every step leaves it unchanged or
   adds exactly one entry at its end. *)
C10_AppendOnly ==
    [][\/ scores' = scores
       \/ /\ Len(scores') = Len(scores) + 1
          /\ SubSeq(scores', 1, Len(scores)) = scores]_vars
C10_Witness ==
    /\ app = "appfinal" /\ Len(scores) = 2 /\ scores[1] # scores[2]

(* The UTF-8 encoding of a text of the characters 'a' and 'e-acute'. *)
RECURSIVE Utf8Encode(_)
Utf8Encode(text) ==
    IF text = <<>> THEN <<>>
    ELSE (IF Head(text) = "a" THEN <<97>>
          ELSE IF Head(text) = "e" THEN <<195, 169>>
          ELSE <<0>>) \o Utf8Encode(Tail(text))
(* The text a function's result hands back, None when it hands back none. *)
ResultText(f, r) ==
    IF f = "extract_text_from_txt" THEN r.val
    ELSE IF f = "process_file" THEN (IF r.raised THEN None ELSE r.val)
    ELSE r.val

(* C11: for a .txt upload whose bytes are valid UTF-8, extraction (by the
   txt extractor alone and through the per-type dispatch of each page)
   returns exactly the decoded string: the text whose UTF-8 encoding is the
   file's bytes, nothing added, removed or changed. *)
C11_TxtRoundTrip ==
    (/\ fn \in FileFns \cup {"extract_text_from_txt"}
     /\ arg.v.ext = "txt"
     /\ Utf8Valid(arg.v.body)) =>
        /\ ResultText(fn, res) # None
        /\ Utf8Encode(ResultText(fn, res)) = arg.v.body
C11_Witness ==
    /\ fn = "process_file"
    /\ arg.v.ext = "txt" /\ arg.v.body = <<97, 195, 169>>
    /\ res.val = <<"a", "e">>

(* C12: every failure (unsupported format, extraction exception, backend
   failure, answer without a percentage) gives an inline status message
   while the page run goes on: no run is aborted by an exception, and a run
   whose upload failed displays an error and no success message. *)
C12_FailuresInline ==
    /\ uncaught = "none"
    /\ upload = "failed" => ("error" \in shown /\ "success" \notin shown)

(* C13: in main2 a button press reaches a backend only when a resume is
   uploaded and a job description is provided; when either is missing the
   run makes no request and no call, and a run that shows the warning made
   none. *)
C13_CallNeedsResumeAndJD ==
    app = "main2" =>
        /\ (uploaded_file = NoFile \/ ~Truthy(input_text)) => (req = NoReq /\ calls = <<>>)
        /\ "warning" \in shown => (req = NoReq /\ calls = <<>>)

SessionApps == {"app2", "app3", "appfinal"}

(* C14: in app2, app3 and appfinal a request reaches the backend only from
   the Home or Analyze page and only in a session state whose stored resume
   text and stored job description are both non-empty text; the request
   carries exactly these two. *)
C14_CallOnlyWhenReady ==
    (app \in SessionApps /\ (req # NoReq \/ calls # <<>>)) =>
        /\ selected \in {"Home", "Analyze"}
        /\ resume_text \notin {None, <<>>}
        /\ job_desc \notin {None, <<>>}
        /\ req.resume = resume_text
        /\ req.jd = job_desc
C14_Witness ==
    /\ app = "appfinal" /\ selected = "Analyze"
    /\ Len(calls) = 1 /\ pc = 3
    /\ resume_text = <<" ">> /\ job_desc = <<"j">>

(* C15: a failed upload (unsupported extension, or an exception raised by
   the extraction) leaves the stored resume text unchanged: a resume that
   was stored before the failed upload is the resume stored after it. *)
C15_FailedUploadKeepsResume ==
    [][(upload' = "failed" /\ Truthy(resume_text)) => resume_text' = resume_text]_vars

(* C16: when the answer to the match-percentage request holds no
   "<digits>%" (the extractor gives "N/A"), the match step completes
   without an uncaught exception, so that the steps after it in the same
   page run are still executed. *)
C16_NoPercentCompletes ==
    match = NA => uncaught = "none"

=============================================================================
